---- MODULE Spec2Model ----
(***************************************************************************)
(* Model of the spam-scoring core of the YouTube comment moderation        *)
(* backend: MLSpamClassifier (backend/app/ml/spam_classifier_ml.py) and    *)
(* SpamClassifier (backend/app/ml/spam_classifier.py), with the settings   *)
(* schemas (backend/app/schemas/settings.py) and the paging loop of        *)
(* YouTubeCommentAnalyzer (backend/app/api/youtube_comment_analyzer.py).   *)
(*                                                                         *)
(* Numbers.  Probabilities are integers in units of 10^-6 (Unit = 1.0).    *)
(* The products the rule engine computes in IEEE doubles that are not the  *)
(* decimal value (0.3*1.5 = 0.44999999999999996, 0.4*1.5 =                 *)
(* 0.6000000000000001, 0.6*1.5 = 0.8999999999999999) are kept one unit     *)
(* below/above the decimal value, so that every comparison of the code     *)
(* against 0.3, 0.4, 0.6 has the outcome it has in Python.                 *)
(*                                                                         *)
(* Texts.  A comment text is a sequence of tokens joined by single         *)
(* spaces; the regular expressions and substring tests of the source are   *)
(* evaluated on the tokens through the tables Sub/Pre/Suf/Lower, which     *)
(* list for every token of the vocabulary the pattern fragments its        *)
(* lower-cased form contains, starts with and ends with.                   *)
(***************************************************************************)
EXTENDS Integers, Sequences, FiniteSets, TLC

VARIABLES deps, mlc, sc, rng, ret, probe, th, made, yt

vars == <<deps, mlc, sc, rng, ret, probe, th, made, yt>>

(***************************************************************************)
(* Bounds of the model.                                                    *)
(***************************************************************************)
MaxLen == 2        \* longest generated text, in tokens
MaxBatch == 2      \* longest batch handed to process_comments
RngMod == 3        \* number of states of the abstract random generator
NumThreads == 2    \* number of threads that call into the module concurrently
MaxComments == 2   \* largest max_comments passed to analyze_video_comments
MaxReplies == 1    \* most replies the platform returns with a comment thread
MaxPages == 2      \* most pages of comment threads a video has

Unit == 1000000

None == "None"     \* Python's None, as the value of an attribute

\* A comment value handed to a classifier: a str (its tokens in val), None,
\* or a value of another type (the int 42).
Str(s) == [type |-> "str", val |-> s]
NoneValue == [type |-> "NoneType", val |-> << >>]
NonString == [type |-> "int", val |-> <<"42">>]

(***************************************************************************)
(* Vocabulary.                                                             *)
(***************************************************************************)
Words == {"Great", "subscribe"}

RECURSIVE SeqsUpTo(_, _)
SeqsUpTo(S, n) ==
  IF n = 0 THEN {<< >>}
  ELSE LET shorter == SeqsUpTo(S, n - 1)
       IN  shorter \cup {Append(s, w) : s \in shorter, w \in S}

ExampleTexts ==
  { <<"Great", "video,", "thanks", "for", "sharing!">>,
    <<"FREE", "IPHONE", "GIVEAWAY!", "Click", "my", "profile", "to", "enter!">>,
    <<"check", "out", "my", "channel">>,
    <<"subscribe", "back">>,
    <<"make", "money", "http://x.co">>,
    <<"mail", "a@b.co">>,
    <<"call", "555-123-4567">>,
    <<"FREE", "WIN!!!!">>,
    <<"cheap">>,
    <<"visit">>,
    <<"x{501}">> }

\* the non-empty texts handed to the classifiers
Texts == (SeqsUpTo(Words, MaxLen) \ {<< >>}) \cup ExampleTexts

\* every value a caller may pass as a comment: None, a non-str, "" or a text
Inputs == {NoneValue, NonString, Str(<< >>)} \cup {Str(t) : t \in Texts}

\* isinstance(c, str)
IsStr(c) == c.type = "str"

\* Python truthiness of a comment value: None and "" are falsy, 42 is not
Truthy(c) == c.type /= "NoneType" /\ ~(c.type = "str" /\ Len(c.val) = 0)

(***************************************************************************)
(* Token tables (lower-cased token against the pattern fragments).         *)
(***************************************************************************)
Sub(t) ==
  CASE t = "visit" -> {"visit"}
    [] t = "subscribe" -> {"subscribe"}
    [] t = "back" -> {"back"}
    [] t = "cheap" -> {"cheap"}
    [] t = "FREE" -> {"free"}
    [] t = "GIVEAWAY!" -> {"giveaway"}
    [] t = "Click" -> {"click"}
    [] t = "my" -> {"my"}
    [] t = "profile" -> {"profile"}
    [] t = "check" -> {"check"}
    [] t = "out" -> {"out"}
    [] t = "channel" -> {"channel"}
    [] t = "make" -> {"make"}
    [] t = "money" -> {"money"}
    [] t = "http://x.co" -> {"http"}
    [] OTHER -> {}

Pre(t) == Sub(t)

Suf(t) == IF t \in {"GIVEAWAY!", "http://x.co"} THEN {} ELSE Sub(t)

Lower(t) ==
  CASE t = "Great" -> "great"
    [] t = "FREE" -> "free"
    [] t = "IPHONE" -> "iphone"
    [] t = "GIVEAWAY!" -> "giveaway!"
    [] t = "Click" -> "click"
    [] t = "WIN!!!!" -> "win!!!!"
    [] OTHER -> t

NChars(t) ==
  CASE t \in {"my", "to"} -> 2
    [] t \in {"for", "out"} -> 3
    [] t \in {"back", "FREE", "make", "mail", "call"} -> 4
    [] t \in {"Great", "visit", "cheap", "Click", "check", "money"} -> 5
    [] t \in {"video,", "thanks", "IPHONE", "enter!", "a@b.co"} -> 6
    [] t \in {"profile", "channel", "WIN!!!!"} -> 7
    [] t = "sharing!" -> 8
    [] t \in {"subscribe", "GIVEAWAY!"} -> 9
    [] t = "http://x.co" -> 11
    [] t = "555-123-4567" -> 12
    [] t = "x{501}" -> 501

NUpper(t) ==
  CASE t \in {"Great", "Click"} -> 1
    [] t = "WIN!!!!" -> 3
    [] t = "FREE" -> 4
    [] t = "IPHONE" -> 6
    [] t = "GIVEAWAY!" -> 8
    [] OTHER -> 0

NExcl(t) ==
  CASE t \in {"sharing!", "GIVEAWAY!", "enter!"} -> 1
    [] t = "WIN!!!!" -> 4
    [] OTHER -> 0

\* sum(ord(c) for c in token)
OrdSum(t) ==
  CASE t = "Great" -> 499 [] t = "visit" -> 559 [] t = "subscribe" -> 962
    [] t = "back" -> 401 [] t = "cheap" -> 513 [] t = "video," -> 579
    [] t = "thanks" -> 649 [] t = "for" -> 327 [] t = "sharing!" -> 781
    [] t = "FREE" -> 290 [] t = "IPHONE" -> 451 [] t = "GIVEAWAY!" -> 638
    [] t = "Click" -> 486 [] t = "my" -> 230 [] t = "profile" -> 753
    [] t = "to" -> 227 [] t = "enter!" -> 575 [] t = "check" -> 510
    [] t = "out" -> 344 [] t = "channel" -> 729 [] t = "make" -> 414
    [] t = "money" -> 552 [] t = "http://x.co" -> 976 [] t = "mail" -> 419
    [] t = "a@b.co" -> 515 [] t = "call" -> 412 [] t = "555-123-4567" -> 613
    [] t = "WIN!!!!" -> 370 [] t = "x{501}" -> 60120

IsUrl(t) == t = "http://x.co"
IsEmail(t) == t = "a@b.co"
IsPhone(t) == t = "555-123-4567"

\* the sum of a sequence of numbers from index i on
RECURSIVE SumFrom(_, _)
SumFrom(s, i) == IF i > Len(s) THEN 0 ELSE s[i] + SumFrom(s, i + 1)

\* len(text): the tokens and the single spaces between them
TextLen(text) == IF Len(text) = 0 THEN 0 ELSE SumFrom([k \in 1..Len(text) |-> NChars(text[k])], 1) + (Len(text) - 1)

\* sum(ord(c) for c in text)
TextOrdSum(text) == IF Len(text) = 0 THEN 0 ELSE SumFrom([k \in 1..Len(text) |-> OrdSum(text[k])], 1) + 32 * (Len(text) - 1)

(***************************************************************************)
(* Pattern matching: re.search(pattern, text_lower) and                    *)
(* `phrase in text_lower`.  A pattern is a sequence of atoms separated by  *)
(* `.*`; an atom is a sequence of fragments separated by one space.        *)
(***************************************************************************)
AtomAt(text, atom, j) ==
  LET n == Len(atom)
  IN  /\ j + n - 1 <= Len(text)
      /\ IF n = 1 THEN atom[1] \in Sub(text[j])
         ELSE /\ atom[1] \in Suf(text[j])
              /\ atom[n] \in Pre(text[j + n - 1])
              /\ \A k \in 2..(n - 1) : Lower(text[j + k - 1]) = atom[k]

RECURSIVE MatchFrom(_, _, _, _)
MatchFrom(text, pat, k, i) ==
  IF k > Len(pat) THEN TRUE
  ELSE \E j \in i..Len(text) :
         AtomAt(text, pat[k], j) /\ MatchFrom(text, pat, k + 1, j + Len(pat[k]))

ReSearch(pat, text) == MatchFrom(text, pat, 1, 1)

(***************************************************************************)
(* Rule engine of MLSpamClassifier.                                        *)
(***************************************************************************)
R(pat, w) == [pat |-> pat, weight |-> w]

\* spam_patterns, in dict order; weights in units of 10^-6.
\* "$#" stands for the fragment \$\d+ .
spam_patterns ==
  << R(<< <<"check">>, <<"my">>, <<"channel">> >>, 700000),
     R(<< <<"subscribe">>, <<"back">> >>, 600000),
     R(<< <<"follow">>, <<"instagram">> >>, 400000),
     R(<< <<"check">>, <<"profile">> >>, 500000),
     R(<< <<"free">>, <<"subscribe">> >>, 800000),
     R(<< <<"make", "money">> >>, 700000),
     R(<< <<"earn", "$#">> >>, 800000),
     R(<< <<"$#">>, <<"day">> >>, 800000),
     R(<< <<"giveaway">> >>, 500000),
     R(<< <<"suspicious", "link">> >>, 900000),
     R(<< <<"click">>, <<"link">> >>, 700000),
     R(<< <<"www.">> >>, 600000),
     R(<< <<"http">> >>, 600000),
     R(<< <<"discount">>, <<"code">> >>, 600000),
     R(<< <<"free">>, <<"gift">> >>, 800000),
     R(<< <<"check">>, <<"bio">> >>, 600000),
     R(<< <<"followers">>, <<"free">> >>, 800000),
     R(<< <<"subscribers">>, <<"free">> >>, 800000),
     R(<< <<"verify">>, <<"account">> >>, 700000),
     R(<< <<"dating">> >>, 700000),
     R(<< <<"dm", "me">> >>, 500000),
     R(<< <<"click">>, <<"profile">> >>, 800000),
     R(<< <<"cheap">> >>, 300000),
     R(<< <<"subscribe">> >>, 400000),
     R(<< <<"check", "out">> >>, 500000),
     R(<< <<"visit">> >>, 400000),
     R(<< <<"bitcoin">> >>, 700000),
     R(<< <<"crypto">> >>, 600000),
     R(<< <<"investment">> >>, 600000) >>

Min(a, b) == IF a < b THEN a ELSE b
Max(a, b) == IF a > b THEN a ELSE b

\* the patterns of the table that match the text
Matched(text) == {i \in 1..Len(spam_patterns) : ReSearch(spam_patterns[i].pat, text)}

RECURSIVE WeightSum(_)
WeightSum(I) ==
  IF I = {} THEN 0
  ELSE LET i == CHOOSE x \in I : TRUE
       IN  spam_patterns[i].weight + WeightSum(I \ {i})

\* score * 1.5 as the double product: the three products of a reachable
\* single-match score that are not the decimal value are kept one unit off
Times15(score) ==
  (score * 3) \div 2 +
    (CASE score = 300000 -> -1
       [] score = 400000 -> 1
       [] score = 600000 -> -1
       [] OTHER -> 0)

\* score * 1.2
Times12(score) == (score * 6) \div 5

\* the process-wide generator of the random module, as a small generator:
\* random.seed(n) puts it in a state that depends on n only, a draw returns
\* a value that depends on the state only and advances the state
RandomSeed(n) == n % RngMod
RandomAdvance(state) == (3 * state + 1) % RngMod
\* a baseline drawn from [0.1, 0.5)
RandomUniformWide(state) == 100000 + (400000 * state) \div RngMod

\* random.uniform(0.01, 0.15) == 0.01 + 0.14 * random(), random() in [0, 1)
RandomUniformBaseline(state) == 10000 + (140000 * state) \div RngMod

RiskOf03(score) ==
  IF score > 600000 THEN "high" ELSE IF score > 300000 THEN "medium" ELSE "low"

\* score after normalisation (matches > 0)
AmplifyBad(raw, matches) ==
  LET s1 == Times15(raw)
  IN  IF matches >= 2 THEN Times12(s1) ELSE s1

\* normalisation with the second stage applied to a single match too
AmplifyTwice(raw, matches) == Min(980000, Times12(Min(900000, Times15(raw))))

Amplify(raw, matches) ==
  LET s1 == Min(900000, Times15(raw))
  IN  IF matches >= 2 THEN Min(980000, Times12(s1)) ELSE s1

\* the loop over spam_patterns, tabulated once per text: the number of
\* patterns that match, the sum of their weights, and sum(ord(c))
ScanTable ==
  [text \in Texts \cup {<< >>} |->
     LET I == Matched(text)
     IN  [matches |-> Cardinality(I), score |-> WeightSum(I), ordsum |-> TextOrdSum(text)]]

\* the (score, risk_level) pair of rule_based_detection with the number of
\* matches and the generator state left
RuleResult(score, matches, g) ==
  [score |-> score, risk_level |-> RiskOf03(score), matches |-> matches, rng |-> g]

\* the no-match branch without the call of random.seed
ScoreScanUnseeded(scan, g) ==
  IF scan.matches > 0
  THEN RuleResult(Amplify(scan.score, scan.matches), scan.matches, g)
  ELSE RuleResult(RandomUniformBaseline(g), 0, RandomAdvance(g))

\* the part of rule_based_detection after the loop over spam_patterns:
\* normalisation when a pattern matched, else the seeded baseline draw
ScoreScan(scan, g) ==
  IF scan.matches > 0
  THEN RuleResult(Amplify(scan.score, scan.matches), scan.matches, g)
  ELSE RuleResult(RandomUniformBaseline(RandomSeed(scan.ordsum)), 0,
                  RandomAdvance(RandomSeed(scan.ordsum)))

\* MLSpamClassifier.rule_based_detection: the (score, risk_level) returned
\* and the generator state it leaves, from the generator state g
rule_based_detection(text, g) == ScoreScan(ScanTable[text], g)

(***************************************************************************)
(* Feature extraction and feature-increment score of SpamClassifier.       *)
(***************************************************************************)
spam_phrases ==
  << <<"check", "out", "my">>, <<"subscribe">>, <<"sub4sub">>, <<"follow", "me">>,
     <<"check", "my", "channel">>, <<"check", "out", "this">>, <<"make", "money">>,
     <<"earn", "money">>, <<"click", "here">>, <<"free", "gift">>, <<"giveaway">>,
     <<"winner">>, <<"congratulations">>, <<"lucky", "winner">>, <<"lottery">>,
     <<"free", "robux">>, <<"free", "vbucks">>, <<"get", "free">>, <<"easy", "money">>,
     <<"work", "from", "home">> >>

\* `phrase in text_lower`
PhraseIn(phrase, text) == \E j \in 1..Len(text) : AtomAt(text, phrase, j)

_extract_features(text) ==
  [text_length |-> TextLen(text),
   contains_url |-> IF \E i \in 1..Len(text) : IsUrl(text[i]) THEN 1 ELSE 0,
   contains_email |-> IF \E i \in 1..Len(text) : IsEmail(text[i]) THEN 1 ELSE 0,
   contains_phone |-> IF \E i \in 1..Len(text) : IsPhone(text[i]) THEN 1 ELSE 0,
   \* all_caps_ratio, kept as the pair (upper-case letters, max(len, 1))
   caps_upper |-> SumFrom([k \in 1..Len(text) |-> NUpper(text[k])], 1),
   caps_len |-> Max(TextLen(text), 1),
   exclamation_count |-> SumFrom([k \in 1..Len(text) |-> NExcl(text[k])], 1),
   spam_phrases |-> Cardinality({i \in 1..Len(spam_phrases) : PhraseIn(spam_phrases[i], text)})]

\* the sum of the feature increments, before clamping
FeatureScore(f) ==
    (IF f.text_length < 5 THEN 100000 ELSE IF f.text_length > 500 THEN 200000 ELSE 0)
  + (IF f.contains_url = 1 THEN 300000 ELSE 0)
  + (IF f.contains_email = 1 THEN 500000 ELSE 0)
  + (IF f.contains_phone = 1 THEN 400000 ELSE 0)
  + (IF 2 * f.caps_upper > f.caps_len THEN 200000 ELSE 0)
  + (IF f.exclamation_count > 3 THEN 200000 ELSE 0)
  + Min(f.spam_phrases * 150000, 600000)

ClampBad(score) == score + 1100000

Clamp(score) == Min(Max(score, 0), Unit)

\* _extract_features, tabulated once per text
FeatureTable == [text \in Texts \cup {<< >>} |-> _extract_features(text)]

\* SpamClassifier._rules_based_classification
_rules_based_classification(text) ==
  LET f == FeatureTable[text]
  IN  [score |-> Clamp(FeatureScore(f)), features |-> f]

(***************************************************************************)
(* The statistical model: a bag-of-words vectorizer and a probabilistic    *)
(* linear model.  An artifact is known by its kind; the coefficient of a   *)
(* token is the sum of the coefficients of the words the vectorizer        *)
(* extracts from it.                                                       *)
(***************************************************************************)
\* kinds of model object: a model with predict_proba, a model with predict
\* only, a model whose prediction raises; "bootstrap" is the in-process one
PickledModels == {"lr", "hard", "badpred"}
\* kinds of vectorizer object: a fitted one, one whose transform raises
PickledVectorizers == {"cv", "badvec"}

\* the bootstrap corpus: +1 for a word of sample_spam only, -1 for a word
\* of sample_not_spam only, 0 for any other word
CoefBootstrap(t) ==
  CASE t \in {"check", "out", "my", "channel", "FREE", "subscribe", "make",
              "money", "Click", "profile", "back"} -> 1
    [] t \in {"Great", "video,", "thanks", "sharing!"} -> -1
    [] OTHER -> 0

\* the coefficients of the pretrained artifact
CoefPretrained(t) ==
  CASE t \in {"subscribe", "FREE", "GIVEAWAY!", "money", "http://x.co"} -> 2
    [] t \in {"cheap", "Click", "WIN!!!!"} -> 1
    [] t \in {"Great", "thanks"} -> -1
    [] OTHER -> 0

InterceptOf(model) == IF model = "bootstrap" THEN 0 ELSE -1

\* the decision score intercept + coef . counts, tabulated once per text
LogitTable ==
  [text \in Texts \cup {<< >>} |->
     [bootstrap |-> SumFrom([k \in 1..Len(text) |-> CoefBootstrap(text[k])], 1),
      pretrained |-> SumFrom([k \in 1..Len(text) |-> CoefPretrained(text[k])], 1)]]

Logit(model, text) ==
  InterceptOf(model) + LogitTable[text][IF model = "bootstrap" THEN "bootstrap" ELSE "pretrained"]

\* 1 / (1 + exp(-z)) in units of 10^-6
Sigmoid(z) ==
  CASE z <= -4 -> 17986
    [] z = -3 -> 47426
    [] z = -2 -> 119203
    [] z = -1 -> 268941
    [] z = 0 -> 500000
    [] z = 1 -> 731059
    [] z = 2 -> 880797
    [] z = 3 -> 952574
    [] z >= 4 -> 982014

\* model.predict_proba(vec)[0][1]
PredictProba(model, text) == Sigmoid(Logit(model, text))

\* model.predict(vec)[0]: the label, 0 or 1
Predict(model, text) == IF Logit(model, text) > 0 THEN 1 ELSE 0

HasPredictProba(model) == model \in {"lr", "bootstrap", "badpred"}

TransformRaises(vectorizer) == vectorizer \in {"badvec", "unfitted", None}

PredictRaises(model) == model \in {"badpred", "unfitted", None}

(***************************************************************************)
(* MLSpamClassifier: loading.                                              *)
(*                                                                         *)
(* The file system is an input of the accessor: for each search location   *)
(* the state of the model file (m) and of the vectorizer file (v), "none"  *)
(* (absent), "ok" (unpickles) or "corrupt" (pickle.load raises).  mk and   *)
(* vk are the kinds of object the "ok" files hold.  train is the outcome   *)
(* of building the bootstrap model: "ok", "import_fails" (the sklearn      *)
(* imports raise) or "fit_fails" (fit raises after both objects exist).    *)
(***************************************************************************)
\* MODELS_DIR, then ADDITIONAL_MODEL_PATHS in order:
\* app/ml/models, backend/ml/models, backend/models, app/models
SearchOrder == <<"P", "A1", "A2", "A3">>
Dirs == {SearchOrder[i] : i \in 1..Len(SearchOrder)}
FileStates == {"none", "ok", "corrupt"}
TrainOutcomes == {"ok", "import_fails", "fit_fails"}

\* the first search location that holds both files, 0 if none
FoundAt(fs) ==
  IF \E i \in 1..Len(SearchOrder) : fs[SearchOrder[i]].m /= "none" /\ fs[SearchOrder[i]].v /= "none"
  THEN CHOOSE i \in 1..Len(SearchOrder) :
         /\ fs[SearchOrder[i]].m /= "none" /\ fs[SearchOrder[i]].v /= "none"
         /\ \A k \in 1..(i - 1) : fs[SearchOrder[k]].m = "none" \/ fs[SearchOrder[k]].v = "none"
  ELSE 0

\* the fallback branch of _load_model (no model files found)
TrainBackupBad(c, train) ==
  CASE train = "ok" ->
         [c EXCEPT !.model = "bootstrap", !.vectorizer = "bootstrap",
                   !._model_loaded = TRUE]
    [] train = "fit_fails" ->
         [c EXCEPT !.model = "unfitted", !.vectorizer = "unfitted", !._model_loaded = FALSE]
    [] train = "import_fails" -> [c EXCEPT !._model_loaded = FALSE]

TrainBackup(c, train) ==
  CASE train = "ok" ->
         [c EXCEPT !.model = "bootstrap", !.vectorizer = "bootstrap",
                   !._model_loaded = TRUE, !._using_backup = TRUE]
    [] train = "fit_fails" ->
         [c EXCEPT !.model = "unfitted", !.vectorizer = "unfitted", !._model_loaded = FALSE]
    [] train = "import_fails" -> [c EXCEPT !._model_loaded = FALSE]

\* unpickling with the flag set as soon as the model file is read
LoadFilesFlagEarly(c, fs, dir, mk, vk) ==
  IF fs[dir].m = "corrupt" THEN [c EXCEPT !._model_loaded = FALSE]
  ELSE IF fs[dir].v = "corrupt" THEN [c EXCEPT !.model = mk, !._model_loaded = TRUE]
  ELSE [c EXCEPT !.model = mk, !.vectorizer = vk, !._model_loaded = TRUE]

\* the branch of _load_model that unpickles the files found in dir
LoadFiles(c, fs, dir, mk, vk) ==
  IF fs[dir].m = "corrupt" THEN [c EXCEPT !._model_loaded = FALSE]
  ELSE IF fs[dir].v = "corrupt" THEN [c EXCEPT !.model = mk, !._model_loaded = FALSE]
  ELSE [c EXCEPT !.model = mk, !.vectorizer = vk, !._model_loaded = TRUE]

\* MLSpamClassifier._load_model
_load_model(c, fs, mk, vk, train) ==
  LET i == FoundAt(fs)
  IN  IF i = 0 THEN TrainBackup(c, train)
      ELSE LoadFiles(c, fs, SearchOrder[i], mk, vk)

\* the (model dir, vectorizer dir) pairs the accessor tries, in loop order:
\* potential_model_paths x potential_vectorizer_paths = (app/models, backend/models)^2
ImportPairs == << <<"A3", "A3">>, <<"A3", "A2">>, <<"A2", "A3">>, <<"A2", "A2">> >>

\* no model artifact can be found at startup: no search location of
\* _load_model holds both files, and the accessor finds no model file and
\* vectorizer file to import
ArtifactAbsent(fs) ==
  /\ FoundAt(fs) = 0
  /\ \A k \in 1..Len(ImportPairs) :
        fs[ImportPairs[k][1]].m = "none" \/ fs[ImportPairs[k][2]].v = "none"

\* MLSpamClassifier.__init__ ; d is the pair of module flags
\* numpy_available, sklearn_available.  _using_backup is TRUE when the
\* attribute exists.  absent records ArtifactAbsent of the file system the
\* instance was built from, reloaded whether the accessor called
\* _load_model again after the constructor.
MLSpamClassifierInit(d, fs, mk, vk, train) ==
  LET c0 == [model |-> None, vectorizer |-> None, _model_loaded |-> FALSE,
             _using_backup |-> FALSE, absent |-> ArtifactAbsent(fs), reloaded |-> FALSE]
  IN  IF d.numpy /\ d.sklearn THEN _load_model(c0, fs, mk, vk, train) ELSE c0

\* import_models(model_path, vectorizer_path): copy both files to MODELS_DIR
import_models(fs, mdir, vdir) ==
  [fs EXCEPT !["P"] = [m |-> fs[mdir].m, v |-> fs[vdir].v]]

RECURSIVE ImportLoop(_, _, _, _, _, _)
ImportLoop(c, fs, mk, vk, train, k) ==
  IF k > Len(ImportPairs) \/ c._model_loaded THEN c
  ELSE LET mdir == ImportPairs[k][1]
           vdir == ImportPairs[k][2]
       IN  IF fs[mdir].m /= "none" /\ fs[vdir].v /= "none"
           THEN LET fs2 == import_models(fs, mdir, vdir)
                    c2 == [_load_model(c, fs2, mk, vk, train) EXCEPT !.reloaded = TRUE]
                IN  ImportLoop(c2, fs2, mk, vk, train, k + 1)
           ELSE ImportLoop(c, fs, mk, vk, train, k + 1)

\* get_ml_classifier, first call: the instance it stores in _ml_classifier
get_ml_classifier(d, fs, mk, vk, train) ==
  LET c == MLSpamClassifierInit(d, fs, mk, vk, train)
  IN  IF c._model_loaded THEN c ELSE ImportLoop(c, fs, mk, vk, train, 1)

(***************************************************************************)
(* MLSpamClassifier.classify                                               *)
(***************************************************************************)
Verdict(is_spam, prob, risk, method) ==
  [is_spam |-> is_spam, spam_probability |-> prob, risk_level |-> risk, method |-> method]

\* `not comment or not isinstance(comment, str)`
IsInvalidBad(comment) == ~IsStr(comment)

IsInvalid(comment) == ~Truthy(comment) \/ ~IsStr(comment)

ModelTypeBad(c) == "pretrained-model"

\* "pretrained-model" if not hasattr(self, '_using_backup') else "backup-model"
ModelType(c) == IF ~c._using_backup THEN "pretrained-model" ELSE "backup-model"

OverridesBad(rule_based_prob, spam_prob) == rule_based_prob > spam_prob + 500000

\* the comparison with the boundary case counted as an override
OverridesInclusive(rule_based_prob, spam_prob) == rule_based_prob >= spam_prob + 300000

\* the comparison without the margin of 0.3
OverridesNoMargin(rule_based_prob, spam_prob) == rule_based_prob > spam_prob

\* rule_based_prob > spam_prob + 0.3
Overrides(rule_based_prob, spam_prob) == rule_based_prob > spam_prob + 300000

NoProb == -1

\* rule_based_result with the cut point of the is_spam flag at 0.5
RuleBasedBad(rb) ==
  [raised |-> FALSE,
   verdict |-> Verdict(rb.score > 500000, rb.score, rb.risk_level, "rule-based"),
   rng |-> rb.rng, rule_prob |-> rb.score, rule_risk |-> rb.risk_level,
   model_prob |-> NoProb, used_vectorizer |-> FALSE, used_model |-> FALSE]

\* rule_based_result and the record of a call that returns it
RuleBased(rb) ==
  [raised |-> FALSE,
   verdict |-> Verdict(rb.score > 400000, rb.score, rb.risk_level, "rule-based"),
   rng |-> rb.rng, rule_prob |-> rb.score, rule_risk |-> rb.risk_level,
   model_prob |-> NoProb, used_vectorizer |-> FALSE, used_model |-> FALSE]

\* spam_prob: predict_proba(...)[0][1], or float(predict(...)[0]) without it
SpamProb(model, text) ==
  IF HasPredictProba(model) THEN PredictProba(model, text) ELSE Predict(model, text) * Unit

\* the end of the try block with the hybrid verdict carrying the tier of the
\* model's probability
CombineModelTier(c, rb, spam_prob) ==
  [RuleBased(rb) EXCEPT
     !.used_vectorizer = TRUE, !.used_model = TRUE, !.model_prob = spam_prob,
     !.verdict = IF Overrides(rb.score, spam_prob)
                 THEN Verdict(TRUE, rb.score, RiskOf03(spam_prob), "hybrid-detection")
                 ELSE Verdict(spam_prob > 400000, spam_prob, RiskOf03(spam_prob),
                              ModelType(c))]

\* the end of the try block without the comparison with the rule engine
CombineNoOverride(c, rb, spam_prob) ==
  [RuleBased(rb) EXCEPT
     !.used_vectorizer = TRUE, !.used_model = TRUE, !.model_prob = spam_prob,
     !.verdict = Verdict(spam_prob > 400000, spam_prob, RiskOf03(spam_prob), ModelType(c))]

\* the end of the try block with the rule engine preferred whenever a
\* pattern matched
CombineRuleFirst(c, rb, spam_prob) ==
  [RuleBased(rb) EXCEPT
     !.used_vectorizer = TRUE, !.used_model = TRUE, !.model_prob = spam_prob,
     !.verdict = IF rb.matches > 0
                 THEN Verdict(TRUE, rb.score, rb.risk_level, "hybrid-detection")
                 ELSE Verdict(spam_prob > 400000, spam_prob, RiskOf03(spam_prob),
                              ModelType(c))]

\* the end of the try block of classify, from spam_prob on
Combine(c, rb, spam_prob) ==
  [RuleBased(rb) EXCEPT
     !.used_vectorizer = TRUE, !.used_model = TRUE, !.model_prob = spam_prob,
     !.verdict = IF Overrides(rb.score, spam_prob)
                 THEN Verdict(TRUE, rb.score, rb.risk_level, "hybrid-detection")
                 ELSE Verdict(spam_prob > 400000, spam_prob, RiskOf03(spam_prob),
                              ModelType(c))]

\* classify with a failed prediction read as a model probability of 0
ClassifyTextZeroOnFailure(c, d, text, rb) ==
  IF ~c._model_loaded \/ ~d.numpy \/ ~d.sklearn THEN RuleBased(rb)
  ELSE IF TransformRaises(c.vectorizer) THEN [RuleBased(rb) EXCEPT !.used_vectorizer = TRUE]
  ELSE IF PredictRaises(c.model) THEN Combine(c, rb, 0)
  ELSE Combine(c, rb, SpamProb(c.model, text))

\* classify after the input check, rb the result of rule_based_detection
ClassifyText(c, d, text, rb) ==
  IF ~c._model_loaded \/ ~d.numpy \/ ~d.sklearn THEN RuleBased(rb)
  ELSE IF TransformRaises(c.vectorizer) THEN [RuleBased(rb) EXCEPT !.used_vectorizer = TRUE]
  ELSE IF PredictRaises(c.model)
       THEN [RuleBased(rb) EXCEPT !.used_vectorizer = TRUE, !.used_model = TRUE]
  ELSE Combine(c, rb, SpamProb(c.model, text))

\* The outcome of classify(comment) on instance c with module flags d and
\* generator state g: the verdict returned, the generator state left, and
\* what the call computed on the way (rule_prob, model_prob: NoProb when
\* not computed; used_vectorizer, used_model: whether they were invoked).
classify(c, d, comment, g) ==
  IF IsInvalid(comment)
  THEN [raised |-> FALSE, verdict |-> Verdict(FALSE, 0, "low", "rule-based"), rng |-> g,
        rule_prob |-> NoProb, rule_risk |-> "low", model_prob |-> NoProb,
        used_vectorizer |-> FALSE, used_model |-> FALSE]
  ELSE ClassifyText(c, d, comment.val, rule_based_detection(comment.val, g))

(***************************************************************************)
(* MLSpamClassifier.process_comments                                       *)
(***************************************************************************)
\* `if not comment or not isinstance(comment, str): continue`
IsSkipped(comment) == ~Truthy(comment) \/ ~IsStr(comment)

CountsAsSpamBad(result) == result.risk_level = "high"

\* if result["is_spam"]
CountsAsSpam(result) == result.is_spam

TotalCommentsBad(classified_comments, comments) == Len(comments)

\* total_comments = len(classified_comments)
TotalComments(classified_comments, comments) == Len(classified_comments)

\* (spam_count / total_comments) * 100 if total_comments > 0 else 0,
\* a percentage in units of 10^-6 (the quotient truncated to that unit)
SpamRate(spam_count, total_comments) ==
  IF total_comments > 0 THEN (spam_count * 100 * Unit) \div total_comments ELSE 0

EmptyBatchResultBad ==
  [classified_comments |-> << >>, spam_count |-> 0, spam_rate |-> 100 * Unit]

\* the result returned for `not comments`
EmptyBatchResult ==
  [classified_comments |-> << >>, spam_count |-> 0, spam_rate |-> 0]

\* result = classify(comment); result["text"] = comment
ResultWithText(verdict, comment) ==
  [is_spam |-> verdict.is_spam, spam_probability |-> verdict.spam_probability,
   risk_level |-> verdict.risk_level, method |-> verdict.method, text |-> comment]

\* one pass of the loop body with the result put in front of the list
BatchStepPrepend(acc, comment, r) ==
  [classified_comments |-> <<ResultWithText(r.verdict, comment)>> \o acc.classified_comments,
   spam_count |-> acc.spam_count
                    + (IF CountsAsSpam(ResultWithText(r.verdict, comment)) THEN 1 ELSE 0),
   rng |-> r.rng,
   calls |-> acc.calls + 1]

\* one pass of the loop body for a comment that is not skipped, r the
\* outcome of its classify call
BatchStep(acc, comment, r) ==
  [classified_comments |-> Append(acc.classified_comments, ResultWithText(r.verdict, comment)),
   spam_count |-> acc.spam_count
                    + (IF CountsAsSpam(ResultWithText(r.verdict, comment)) THEN 1 ELSE 0),
   rng |-> r.rng,
   calls |-> acc.calls + 1]

\* the loop over comments from index i on: acc holds classified_comments,
\* spam_count, the generator state and the number of classify calls made
RECURSIVE BatchLoop(_, _, _, _, _)
BatchLoop(c, d, comments, i, acc) ==
  IF i > Len(comments) THEN acc
  ELSE IF IsSkipped(comments[i]) THEN BatchLoop(c, d, comments, i + 1, acc)
  ELSE BatchLoop(c, d, comments, i + 1,
                 BatchStep(acc, comments[i], classify(c, d, comments[i], acc.rng)))

\* the summary built after the loop
BatchSummary(acc, comments) ==
  [result |-> [classified_comments |-> acc.classified_comments,
               spam_count |-> acc.spam_count,
               spam_rate |-> SpamRate(acc.spam_count,
                                      TotalComments(acc.classified_comments, comments))],
   rng |-> acc.rng, calls |-> acc.calls]

process_comments(c, d, comments, g) ==
  IF Len(comments) = 0    \* `if not comments`
  THEN [result |-> EmptyBatchResult, rng |-> g, calls |-> 0]
  ELSE BatchSummary(BatchLoop(c, d, comments, 1,
                      [classified_comments |-> << >>, spam_count |-> 0, rng |-> g, calls |-> 0]),
                    comments)

(***************************************************************************)
(* SpamClassifier (spam_classifier.py)                                     *)
(***************************************************************************)
\* SpamClassifier.__init__ with _load_model: m, v are the states of the
\* files at model_path and vectorizer_path, mk, vk the kinds they hold
SpamClassifierInit(m, v, mk, vk) ==
  LET s0 == [model |-> None, vectorizer |-> None, is_model_loaded |-> FALSE]
  IN  IF m = "none" \/ v = "none" THEN s0
      ELSE IF m = "corrupt" THEN s0
      ELSE IF v = "corrupt" THEN [s0 EXCEPT !.model = mk]
      ELSE [model |-> mk, vectorizer |-> vk, is_model_loaded |-> TRUE]

\* the risk tiers of SpamClassifier.classify
RiskOf04(probability) ==
  IF probability >= 800000 THEN "high"
  ELSE IF probability >= 400000 THEN "medium" ELSE "low"

SimpleRaised == [raised |-> TRUE, probability |-> NoProb, risk_level |-> "none"]

SimpleResult(probability) ==
  [raised |-> FALSE, probability |-> probability, risk_level |-> RiskOf04(probability)]

\* the rules-based branch: len(text) raises TypeError unless text is a str
SimpleRules(text) ==
  IF ~IsStr(text) THEN SimpleRaised
  ELSE SimpleResult(_rules_based_classification(text.val).score)

\* SpamClassifier.classify(text) on instance s
simple_classify(s, text) ==
  IF /\ s.is_model_loaded
     \* the try block raises: fall back to the rules
     /\ ~(~IsStr(text) \/ TransformRaises(s.vectorizer) \/ PredictRaises(s.model))
  THEN \* predict_proba, or the sigmoid of decision_function without it
       SimpleResult(Sigmoid(Logit(s.model, text.val)))
  ELSE SimpleRules(text)

(***************************************************************************)
(* State.                                                                  *)
(*   deps  numpy_available, sklearn_available of spam_classifier_ml        *)
(*   mlc   _ml_classifier: None or the MLSpamClassifier instance           *)
(*   sc    _classifier: None or the SpamClassifier instance                *)
(*   rng   state of the process-wide generator of the random module        *)
(*   ret   the last call and what it returned                              *)
(*   probe an earlier classify call and its verdict, None if none is kept  *)
(*   th    the threads of the process: position, argument, result           *)
(*   made  the number of constructions of each singleton                    *)
(*   yt    the analyze_video_comments call: its locals, then its result     *)
(***************************************************************************)
\* sklearn imports numpy: it is not available without numpy
Deps == {[numpy |-> TRUE, sklearn |-> TRUE],
         [numpy |-> TRUE, sklearn |-> FALSE],
         [numpy |-> FALSE, sklearn |-> FALSE]}

FileSystems == [Dirs -> [m : FileStates, v : FileStates]]

\* every instance the first get_ml_classifier() call can produce
MlInstances ==
  [d \in Deps |->
     {get_ml_classifier(d, fs, mk, vk, train) :
        fs \in FileSystems, mk \in PickledModels, vk \in PickledVectorizers,
        train \in IF d.sklearn THEN TrainOutcomes ELSE {"import_fails"}}]

\* every instance the first get_classifier() call can produce
SimpleInstances ==
  {SpamClassifierInit(m, v, mk, vk) :
     m \in FileStates, v \in FileStates, mk \in PickledModels, vk \in PickledVectorizers}

\* the value of a singleton variable before the first accessor call
NotBuilt == [built |-> FALSE]

\* the value of probe while no call is kept; later is TRUE once a call
\* with another argument followed the kept one
NoProbe == [set |-> FALSE, later |-> FALSE]

\* the threads of the process
Threads == 1..NumThreads

\* the verdict slot of a thread that has not returned from classify
NoVerdict == Verdict(FALSE, NoProb, "none", "none")

\* a thread before its call: pc is its position, arg the comment it passed,
\* got the identity of the instance an accessor returned to it (the number
\* of the construction that made it), verdict what classify returned to it
IdleThread == [pc |-> "idle", arg |-> NoneValue, got |-> 0, verdict |-> NoVerdict]

Init ==
  /\ deps \in Deps
  /\ mlc = NotBuilt
  /\ sc = NotBuilt
  /\ rng \in 0..(RngMod - 1)
  /\ ret = [op |-> "none"]
  /\ probe = NoProbe
  /\ th = [t \in Threads |-> IdleThread]
  /\ made = [ml |-> 0, sc |-> 0]
  /\ yt = [pc |-> "idle"]

\* get_ml_classifier(): builds the singleton on the first call
GetMlClassifier ==
  /\ mlc = NotBuilt
  /\ \E c \in MlInstances[deps] : mlc' = c
  /\ ret' = [op |-> "get_ml_classifier"]
  /\ made' = [made EXCEPT !.ml = @ + 1]
  /\ UNCHANGED <<deps, sc, rng, probe, th, yt>>

\* every instance the first get_ml_classifier() call can produce under the
\* module flags d, with the circumstances it was built in: found is whether _load_model found both
\* files in a search location, train what training the bootstrap model
\* does (or would do) in this process
MlBuilds(d) ==
  {[c |-> get_ml_classifier(d, fs, mk, vk, train), found |-> FoundAt(fs) /= 0,
    train |-> train] :
     fs \in FileSystems, mk \in PickledModels, vk \in PickledVectorizers,
     train \in IF d.sklearn THEN TrainOutcomes ELSE {"import_fails"}}

\* get_ml_classifier(), first call, the circumstances kept with the result
GetMlClassifierKept ==
  /\ mlc = NotBuilt
  /\ \E b \in MlBuilds(deps) :
        /\ mlc' = b.c
        /\ ret' = [op |-> "get_ml_classifier_kept", found |-> b.found, train |-> b.train]
  /\ made' = [made EXCEPT !.ml = @ + 1]
  /\ UNCHANGED <<deps, sc, rng, probe, th, yt>>

ClassifyRet(comment, r) ==
  [op |-> "classify", arg |-> comment, raised |-> r.raised, verdict |-> r.verdict,
   rule_prob |-> r.rule_prob, rule_risk |-> r.rule_risk, model_prob |-> r.model_prob,
   used_vectorizer |-> r.used_vectorizer, used_model |-> r.used_model]

\* the effect of a classify call with outcome r
ClassifyReturns(comment, r) ==
  /\ ret' = ClassifyRet(comment, r)
  /\ rng' = r.rng
  /\ probe' = IF probe.set /\ comment /= probe.arg
              THEN [probe EXCEPT !.later = TRUE] ELSE probe

\* get_ml_classifier().classify(comment)
Classify ==
  /\ mlc /= NotBuilt
  /\ \E comment \in Inputs : ClassifyReturns(comment, classify(mlc, deps, comment, rng))
  /\ UNCHANGED <<deps, mlc, sc, th, made, yt>>

\* the effect of a classify call with outcome r whose text and verdict are kept
ClassifyProbeReturns(comment, r) ==
  /\ ret' = ClassifyRet(comment, r)
  /\ rng' = r.rng
  /\ probe' = [set |-> TRUE, later |-> FALSE, arg |-> comment, verdict |-> r.verdict]

\* a classify call whose text and verdict are kept for a later comparison
ClassifyProbe ==
  /\ mlc /= NotBuilt
  /\ probe = NoProbe
  /\ \E comment \in Inputs : ClassifyProbeReturns(comment, classify(mlc, deps, comment, rng))
  /\ UNCHANGED <<deps, mlc, sc, th, made, yt>>

\* the entries of a batch
BatchInputs == {NoneValue, NonString, Str(<< >>), Str(<<"Great">>), Str(<<"visit">>)}

\* the number of entries of a batch that are non-empty strings
NonEmptyStrings(comments) ==
  Cardinality({i \in 1..Len(comments) : comments[i].type = "str" /\ Len(comments[i].val) > 0})

\* the batches handed to process_comments
Batches == SeqsUpTo(BatchInputs, MaxBatch)

\* the effect of a process_comments call with outcome r
ProcessCommentsReturns(comments, r) ==
  /\ ret' = [op |-> "process_comments", entries |-> Len(comments),
             strings |-> NonEmptyStrings(comments), result |-> r.result, calls |-> r.calls]
  /\ rng' = r.rng

\* get_ml_classifier().process_comments(comments)
ProcessComments ==
  /\ mlc /= NotBuilt
  /\ \E comments \in Batches :
       ProcessCommentsReturns(comments, process_comments(mlc, deps, comments, rng))
  /\ UNCHANGED <<deps, mlc, sc, probe, th, made, yt>>

\* the effect of a process_comments call with outcome r whose argument is
\* kept with the result
ProcessCommentsKeptReturns(comments, r) ==
  /\ ret' = [op |-> "process_comments_kept", arg |-> comments, result |-> r.result]
  /\ rng' = r.rng

\* get_ml_classifier().process_comments(comments), the argument kept
ProcessCommentsKept ==
  /\ mlc /= NotBuilt
  /\ \E comments \in Batches :
       ProcessCommentsKeptReturns(comments, process_comments(mlc, deps, comments, rng))
  /\ UNCHANGED <<deps, mlc, sc, probe, th, made, yt>>

\* get_classifier(): builds the singleton on the first call; the module
\* imports numpy unconditionally
GetClassifier ==
  /\ deps.numpy
  /\ sc = NotBuilt
  /\ \E s \in SimpleInstances : sc' = s
  /\ ret' = [op |-> "get_classifier"]
  /\ made' = [made EXCEPT !.sc = @ + 1]
  /\ UNCHANGED <<deps, mlc, rng, probe, th, yt>>

SimpleClassifyRet(text, r) ==
  [op |-> "simple_classify", arg |-> text, raised |-> r.raised,
   probability |-> r.probability, risk_level |-> r.risk_level]

\* get_classifier().classify(text)
SimpleClassify ==
  /\ sc /= NotBuilt
  /\ \E text \in Inputs : ret' = SimpleClassifyRet(text, simple_classify(sc, text))
  /\ UNCHANGED <<deps, mlc, sc, rng, probe, th, made, yt>>

(***************************************************************************)
(* The accessors called from several threads.  A thread runs the test       *)
(* `if _ml_classifier is None` as one step and, when the test succeeded,    *)
(* the rest of the accessor (construction, assignment, import loop,         *)
(* return) as a second step: the module holds no lock, so other threads     *)
(* may run between the two.  made counts the constructions.                 *)
(***************************************************************************)
\* get_ml_classifier() in thread t: `if _ml_classifier is None`, and the
\* return when it is not
MlTest(t) ==
  /\ th[t].pc = "idle"
  /\ th' = [th EXCEPT ![t] = IF mlc = NotBuilt THEN [@ EXCEPT !.pc = "ml_none"]
                              ELSE [@ EXCEPT !.pc = "ml_returned", !.got = made.ml]]
  /\ UNCHANGED <<deps, mlc, sc, rng, ret, probe, made, yt>>

\* get_ml_classifier() in thread t after the test found None:
\* _ml_classifier = MLSpamClassifier(), the import loop, the return
MlBuild(t) ==
  /\ th[t].pc = "ml_none"
  /\ \E c \in MlInstances[deps] : mlc' = c
  /\ made' = [made EXCEPT !.ml = @ + 1]
  /\ th' = [th EXCEPT ![t] = [@ EXCEPT !.pc = "ml_returned", !.got = made.ml + 1]]
  /\ UNCHANGED <<deps, sc, rng, ret, probe, yt>>

\* get_classifier() in thread t: `if _classifier is None`, and the return
\* when it is not
ScTest(t) ==
  /\ deps.numpy
  /\ th[t].pc = "idle"
  /\ th' = [th EXCEPT ![t] = IF sc = NotBuilt THEN [@ EXCEPT !.pc = "sc_none"]
                              ELSE [@ EXCEPT !.pc = "sc_returned", !.got = made.sc]]
  /\ UNCHANGED <<deps, mlc, sc, rng, ret, probe, made, yt>>

\* get_classifier() in thread t after the test found None:
\* _classifier = SpamClassifier(), the return
ScBuild(t) ==
  /\ th[t].pc = "sc_none"
  /\ \E s \in SimpleInstances : sc' = s
  /\ made' = [made EXCEPT !.sc = @ + 1]
  /\ th' = [th EXCEPT ![t] = [@ EXCEPT !.pc = "sc_returned", !.got = made.sc + 1]]
  /\ UNCHANGED <<deps, mlc, rng, ret, probe, yt>>

MlTestStep == \E t \in Threads : MlTest(t)
MlBuildStep == \E t \in Threads : MlBuild(t)
ScTestStep == \E t \in Threads : ScTest(t)
ScBuildStep == \E t \in Threads : ScBuild(t)

(***************************************************************************)
(* classify called from several threads on the shared instance.  The only  *)
(* state a call writes is the process-wide generator of the random module: *)
(* random.seed(...) and random.uniform(...) are two calls, and the class   *)
(* holds no lock, so other threads may run between them.  The rest of a    *)
(* call reads the instance only.                                           *)
(***************************************************************************)
\* the comments the threads pass
RaceInputs ==
  {NoneValue, Str(<<"Great">>), Str(<<"visit">>),
   Str(<<"Great", "video,", "thanks", "for", "sharing!">>)}

\* whether classify(comment) reaches random.seed: a valid text without match
TakesBaseline(comment) == ~IsInvalid(comment) /\ ScanTable[comment.val].matches = 0

\* thread t returns from classify(comment) with outcome r
ThreadReturns(t, comment, r) ==
  th' = [th EXCEPT ![t] = [@ EXCEPT !.pc = "cl_returned", !.arg = comment,
                                    !.verdict = r.verdict]]

\* classify(comment) in thread t up to random.seed(sum(ord(c) for c in text)),
\* or the whole call when it does not reach that line
ClassifyBegin(t, comment) ==
  /\ th[t].pc = "idle"
  /\ mlc /= NotBuilt
  /\ IF TakesBaseline(comment)
     THEN /\ rng' = RandomSeed(ScanTable[comment.val].ordsum)
          /\ th' = [th EXCEPT ![t] = [@ EXCEPT !.pc = "cl_seeded", !.arg = comment]]
     ELSE /\ ThreadReturns(t, comment, classify(mlc, deps, comment, rng))
          /\ rng' = rng
  /\ UNCHANGED <<deps, mlc, sc, ret, probe, made, yt>>

\* classify in thread t from random.uniform(0.01, 0.15) to its return
ClassifyDraw(t) ==
  /\ th[t].pc = "cl_seeded"
  /\ ThreadReturns(t, th[t].arg,
                   ClassifyText(mlc, deps, th[t].arg.val,
                                RuleResult(RandomUniformBaseline(rng), 0, RandomAdvance(rng))))
  /\ rng' = RandomAdvance(rng)
  /\ UNCHANGED <<deps, mlc, sc, ret, probe, made, yt>>

ClassifyBeginStep == \E t \in Threads : \E comment \in RaceInputs : ClassifyBegin(t, comment)
ClassifyDrawStep == \E t \in Threads : ClassifyDraw(t)

(***************************************************************************)
(* Validation of the settings schemas (app/schemas/settings.py).           *)
(* Thresholds are in units of 10^-6.  A field is Omitted when the caller   *)
(* does not pass it.  Fields are validated in the order of their           *)
(* declaration, high_risk_threshold before medium_risk_threshold; a field  *)
(* that is not passed takes its default, on which neither the bounds nor   *)
(* the validator run; `values` holds the fields that passed so far.        *)
(***************************************************************************)
\* a threshold as passed or stored: not passed, None, or a float
Omitted == [kind |-> "omitted", val |-> 0]
NoneThreshold == [kind |-> "None", val |-> 0]
Float(x) == [kind |-> "float", val |-> x]

\* what a caller may pass for a threshold
ThresholdInputs ==
  {Omitted, NoneThreshold} \cup
  {Float(x) : x \in {-100000, 0, 300000, 400000, 500000, 800000, Unit, 1200000}}

\* the default of a threshold field: Field(0.8, ...) and Field(0.4, ...) in
\* MLSettingsBase, Field(None, ...) in MLSettingsUpdate
ThresholdDefault(schema, field) ==
  IF schema = "MLSettingsUpdate" THEN NoneThreshold
  ELSE IF field = "high_risk_threshold" THEN Float(800000) ELSE Float(400000)

\* the outcome of one field: ok is whether it passed, value what it holds
FieldResult(ok, value) == [ok |-> ok, value |-> value]

\* the type and bounds of a threshold field: float (Optional[float] in
\* MLSettingsUpdate) with ge=0.0, le=1.0
ValidateField(schema, field, v) ==
  IF v = Omitted THEN FieldResult(TRUE, ThresholdDefault(schema, field))
  ELSE IF v = NoneThreshold THEN FieldResult(schema = "MLSettingsUpdate", v)
  ELSE FieldResult(v.val >= 0 /\ v.val <= Unit, v)

\* @validator('medium_risk_threshold') validate_thresholds(cls, v, values):
\* whether it returns v; high is the outcome of the high_risk_threshold
\* field, in values when it passed.  `v >= None` raises TypeError
validate_thresholds(high, v) ==
  IF high.ok
  THEN IF high.value = NoneThreshold THEN FALSE ELSE ~(v.val >= high.value.val)
  ELSE TRUE

\* the medium_risk_threshold field: the validator runs on a value that was
\* passed, is not None and is within the bounds
ValidateMedium(schema, high, v) ==
  IF v = Omitted \/ v = NoneThreshold \/ ~ValidateField(schema, "medium_risk_threshold", v).ok
  THEN ValidateField(schema, "medium_risk_threshold", v)
  ELSE FieldResult(validate_thresholds(high, v), v)

\* the outcome of schema(high_risk_threshold=h, medium_risk_threshold=m):
\* accepted when no field failed, and then the thresholds of the object
SettingsObject(schema, high, medium) ==
  [op |-> schema, accepted |-> high.ok /\ medium.ok,
   high_risk_threshold |-> high.value, medium_risk_threshold |-> medium.value]

ValidateSettings(schema, h, m) ==
  SettingsObject(schema, ValidateField(schema, "high_risk_threshold", h),
                 ValidateMedium(schema, ValidateField(schema, "high_risk_threshold", h), m))

\* MLSettingsCreate(user_id=..., high_risk_threshold=h, medium_risk_threshold=m)
ValidateCreate ==
  /\ \E h, m \in ThresholdInputs : ret' = ValidateSettings("MLSettingsCreate", h, m)
  /\ UNCHANGED <<deps, mlc, sc, rng, probe, th, made, yt>>

\* MLSettingsUpdate(high_risk_threshold=h, medium_risk_threshold=m)
ValidateUpdate ==
  /\ \E h, m \in ThresholdInputs : ret' = ValidateSettings("MLSettingsUpdate", h, m)
  /\ UNCHANGED <<deps, mlc, sc, rng, probe, th, made, yt>>

(***************************************************************************)
(* classify on a loaded model whose predict_proba output is an input: the  *)
(* artifact is whatever was pickled, so for a given text the model may     *)
(* return any probability.  The outputs tried lie at and next to the point *)
(* where the rule engine's score equals the output plus 0.3.               *)
(***************************************************************************)
\* values of model.predict_proba(comment_vec)[0][1]: 0, 1 and the values
\* around the rule engine's score of a text with a match, less 0.3
PredictProbaOutputs ==
  LET RuleScores == {Amplify(ScanTable[t].score, ScanTable[t].matches) :
                       t \in {u \in Texts : ScanTable[u].matches > 0}}
  IN  {0, Unit} \cup
      {p \in {s - 300000 + k : s \in RuleScores, k \in {-1, 0, 1}} : p >= 0 /\ p <= Unit}

\* whether classify(text) on c reaches predict_proba and gets its output
ModelAnswers(c, d) ==
  /\ c._model_loaded
  /\ d.numpy
  /\ d.sklearn
  /\ ~TransformRaises(c.vectorizer)
  /\ ~PredictRaises(c.model)
  /\ HasPredictProba(c.model)

\* get_ml_classifier().classify(text) where predict_proba returns spam_prob
ClassifyWithProb ==
  /\ mlc /= NotBuilt
  /\ ModelAnswers(mlc, deps)
  /\ \E text \in Texts : \E spam_prob \in PredictProbaOutputs :
        ClassifyReturns(Str(text), Combine(mlc, rule_based_detection(text, rng), spam_prob))
  /\ UNCHANGED <<deps, mlc, sc, th, made, yt>>

(***************************************************************************)
(* YouTubeCommentAnalyzer.analyze_video_comments.  The video platform is   *)
(* an input: the video lookup raises, reports no comments or reports some; *)
(* each commentThreads().list(maxResults=n).execute() raises or returns at *)
(* most n threads, each with its replies, with or without a nextPageToken. *)
(* One step of the model is one pass of the while loop.                    *)
(***************************************************************************)
MAX_RESULTS_PER_PAGE == 100

\* the texts of the comments the platform returns
CommentTexts == {<<"Great">>, <<"subscribe">>}

\* the responses to a request for at most n comment threads, a thread being
\* the text of the top-level comment and of its replies; more is whether
\* the video has further pages
Responses(n, more) ==
  LET CommentThreads == {[text |-> t, replies |-> r] :
                           t \in CommentTexts, r \in SeqsUpTo(CommentTexts, MaxReplies)}
  IN  {[raised |-> TRUE, items |-> << >>, nextPageToken |-> FALSE]} \cup
      {[raised |-> FALSE, items |-> i, nextPageToken |-> k] :
         i \in SeqsUpTo(CommentThreads, n), k \in IF more THEN BOOLEAN ELSE {FALSE}}

\* comments_analyzed, spam_detected and results["spam_comments"] at the
\* start of the loop
NoComments == [comments_analyzed |-> 0, spam_detected |-> 0, spam_comments |-> << >>]

\* probability > 0.7 for the probability self.classifier.classify returns
IsHighProbability(s, text) == simple_classify(s, Str(text)).probability > 700000

\* classify one comment and count it
AnalyzeComment(s, acc, text, is_reply) ==
  [comments_analyzed |-> acc.comments_analyzed + 1,
   spam_detected |-> acc.spam_detected + (IF IsHighProbability(s, text) THEN 1 ELSE 0),
   spam_comments |-> IF IsHighProbability(s, text)
                     THEN Append(acc.spam_comments, [text |-> text, is_reply |-> is_reply])
                     ELSE acc.spam_comments]

\* for reply in item["replies"]["comments"], from index j on
RECURSIVE AnalyzeReplies(_, _, _, _)
AnalyzeReplies(s, acc, replies, j) ==
  IF j > Len(replies) THEN acc
  ELSE AnalyzeReplies(s, AnalyzeComment(s, acc, replies[j], TRUE), replies, j + 1)

\* for item in items, from index i on: the top-level comment, then its replies
RECURSIVE AnalyzeItems(_, _, _, _)
AnalyzeItems(s, acc, items, i) ==
  IF i > Len(items) THEN acc
  ELSE AnalyzeItems(s, AnalyzeReplies(s, AnalyzeComment(s, acc, items[i].text, FALSE),
                                       items[i].replies, 1),
                    items, i + 1)

\* the call has returned results; counts is whether the dict holds
\* spam_detected, comments_analyzed and spam_comments
Returned(max_comments, success, counts, comments_analyzed, spam_detected, spam_comments) ==
  [pc |-> "returned", max_comments |-> max_comments,
   results |-> [success |-> success, counts |-> counts,
                comments_analyzed |-> comments_analyzed, spam_detected |-> spam_detected,
                spam_comments |-> spam_comments]]

\* the normal end of the loop: the counters are written to results
ReturnedNormally(max_comments, acc) ==
  Returned(max_comments, TRUE, TRUE, acc.comments_analyzed, acc.spam_detected,
           acc.spam_comments)

\* one pass of the while loop on the response of the platform, acc being
\* the counters after the items of the response.  When execute() raises,
\* the except branch returns results with the counters it was created with
\* and the spam_comments appended so far; the pass ends with
\* `if not next_page_token or comments_analyzed >= max_comments: break`
AfterPage(y, response, acc) ==
  IF response.raised THEN Returned(y.max_comments, FALSE, TRUE, 0, 0, y.acc.spam_comments)
  ELSE IF Len(response.items) = 0 THEN ReturnedNormally(y.max_comments, y.acc)
  ELSE IF ~response.nextPageToken \/ acc.comments_analyzed >= y.max_comments
       THEN ReturnedNormally(y.max_comments, acc)
       ELSE [y EXCEPT !.acc = acc, !.pages = @ + 1]

\* YouTubeCommentAnalyzer().analyze_video_comments(video_id, max_comments)
\* up to the first test of the while loop; info is what _get_video_info does
AnalyzeVideoComments ==
  /\ sc /= NotBuilt
  /\ yt.pc = "idle"
  /\ \E max_comments \in 0..MaxComments : \E info \in {"raises", "no_comments", "comments"} :
        yt' = IF info = "raises" THEN Returned(max_comments, FALSE, FALSE, 0, 0, << >>)
              ELSE IF info = "no_comments" \/ ~(0 < max_comments)
                   THEN ReturnedNormally(max_comments, NoComments)
                   ELSE [pc |-> "loop", max_comments |-> max_comments,
                         acc |-> NoComments, pages |-> 0]
  /\ UNCHANGED <<deps, mlc, sc, rng, ret, probe, th, made>>

\* a pass of the while loop
AnalyzePage ==
  /\ yt.pc = "loop"
  /\ \E response \in Responses(Min(MAX_RESULTS_PER_PAGE,
                                    yt.max_comments - yt.acc.comments_analyzed),
                                yt.pages + 1 < MaxPages) :
        yt' = AfterPage(yt, response, AnalyzeItems(sc, yt.acc, response.items, 1))
  /\ UNCHANGED <<deps, mlc, sc, rng, ret, probe, th, made>>

Next == GetMlClassifier \/ Classify \/ GetClassifier \/ SimpleClassify

Spec == Init /\ [][Next]_vars

NextBatch == GetMlClassifier \/ ProcessComments

SpecBatch == Init /\ [][NextBatch]_vars

NextIdem == GetMlClassifier \/ Classify \/ ClassifyProbe

SpecIdem == Init /\ [][NextIdem]_vars

NextAccessor == MlTestStep \/ MlBuildStep \/ ScTestStep \/ ScBuildStep

SpecAccessor == Init /\ [][NextAccessor]_vars

NextRace == GetMlClassifier \/ ClassifyBeginStep \/ ClassifyDrawStep

SpecRace == Init /\ [][NextRace]_vars

(***************************************************************************)
(* Properties.                                                             *)
(***************************************************************************)
NextSettings == ValidateCreate \/ ValidateUpdate

SpecSettings == Init /\ [][NextSettings]_vars

NextResolve == GetMlClassifier \/ ClassifyWithProb

SpecResolve == Init /\ [][NextResolve]_vars

NextOrder == GetMlClassifier \/ ProcessCommentsKept

SpecOrder == Init /\ [][NextOrder]_vars

NextTiers == GetMlClassifierKept

SpecTiers == Init /\ [][NextTiers]_vars

NextAnalyzer == GetClassifier \/ AnalyzeVideoComments \/ AnalyzePage

SpecAnalyzer == Init /\ [][NextAnalyzer]_vars

InvalidInputs == {NoneValue, NonString, Str(<< >>)}

IsClassify == ret.op = "classify"
IsSimple == ret.op = "simple_classify"
IsBatch == ret.op = "process_comments"

\* C1: the spam_probability of every verdict returned by classify, of
\* either classifier and in every mode, lies in [0.0, 1.0], and so does the
\* score of the rule engine whenever it ran.
C1_ProbabilityInUnitInterval ==
  /\ IsClassify =>
       /\ ret.verdict.spam_probability >= 0 /\ ret.verdict.spam_probability <= Unit
       /\ ret.rule_prob /= NoProb => (ret.rule_prob >= 0 /\ ret.rule_prob <= Unit)
  /\ (IsSimple /\ ~ret.raised) => (ret.probability >= 0 /\ ret.probability <= Unit)

\* C1 witness: a rule-based verdict for a text on which two or more
\* patterns fired, so that both clamps of the rule engine acted
C1_Witness ==
  /\ IsClassify
  /\ ret.verdict.method = "rule-based"
  /\ ScanTable[ret.arg.val].matches >= 2
  /\ ScanTable[ret.arg.val].score > Unit
  /\ ret.verdict.spam_probability = 980000

\* C2: no classify call, of either classifier, raises to its caller,
\* whatever the input (None, non-string and empty included) and whatever
\* the state of the model.
C2_NeverRaises == (IsClassify \/ IsSimple) => ~ret.raised

\* C3: for "", None or a non-string, MLSpamClassifier.classify returns
\* is_spam = false, spam_probability = 0.0, risk_level = low without
\* running the rule engine, the vectorizer or the model.
C3_InvalidInputVerdict ==
  (IsClassify /\ ret.arg \in InvalidInputs) =>
     /\ ~ret.raised
     /\ ret.verdict.is_spam = FALSE
     /\ ret.verdict.spam_probability = 0
     /\ ret.verdict.risk_level = "low"
     /\ ret.rule_prob = NoProb
     /\ ~ret.used_vectorizer /\ ~ret.used_model

\* C3 witness: the empty string classified by an instance whose model is
\* loaded and usable
C3_Witness ==
  /\ IsClassify
  /\ ret.arg = Str(<< >>)
  /\ mlc._model_loaded /\ deps.numpy /\ deps.sklearn
  /\ mlc.model = "lr" /\ mlc.vectorizer = "cv"

\* C4: a classify call with the same text as an earlier call on the same
\* instance returns the verdict the earlier call returned, whatever calls
\* were made in between.
C4_Idempotent ==
  (IsClassify /\ probe.set /\ ret.arg = probe.arg) => ret.verdict = probe.verdict

\* C4 witness: a text that matches no pattern (baseline drawn from the
\* seeded generator) classified again after a call with another text
C4_Witness ==
  /\ IsClassify /\ probe.set /\ probe.later
  /\ ret.arg = probe.arg
  /\ ret.arg.type = "str" /\ Len(ret.arg.val) > 0
  /\ ScanTable[ret.arg.val].matches = 0
  /\ ret.verdict.method = "rule-based"

\* C5: when the model produced model_prob and rule_prob - model_prob > 0.3,
\* the verdict is the rule engine's, tagged hybrid-detection.
C5_HybridOverride ==
  (IsClassify /\ ret.model_prob /= NoProb /\ ret.rule_prob - ret.model_prob > 300000) =>
     /\ ret.verdict.method = "hybrid-detection"
     /\ ret.verdict.spam_probability = ret.rule_prob
     /\ ret.verdict.risk_level = ret.rule_risk

\* C5 witness: a hybrid-detection verdict
C5_Witness ==
  /\ IsClassify
  /\ ret.model_prob /= NoProb
  /\ ret.rule_prob - ret.model_prob > 300000
  /\ ret.verdict.method = "hybrid-detection"

\* C6 as stated: with no model artifact found at startup, every verdict
\* carries method = rule-based.
C6_AbsentMeansRuleBased ==
  (IsClassify /\ mlc.absent) => (~ret.raised /\ ret.verdict.method = "rule-based")

\* C6 amended: with no model artifact found at startup, every call is
\* answered, no verdict is tagged pretrained-model, and every verdict is
\* tagged rule-based unless the bootstrap model was trained.
C6_AbsentNeverPretrained ==
  (IsClassify /\ mlc.absent) =>
     /\ ~ret.raised
     /\ ret.verdict.method \in {"rule-based", "backup-model", "hybrid-detection"}
     /\ mlc.model /= "bootstrap" => ret.verdict.method = "rule-based"

\* C6 witness: no artifact at startup and a verdict of the bootstrap model
C6_Witness ==
  /\ IsClassify /\ mlc.absent
  /\ ret.verdict.method = "backup-model"

\* C7: a verdict of the statistical model is tagged backup-model exactly
\* when the model in use is the one trained in-process, and
\* pretrained-model exactly when it was unpickled from an artifact.
C7_MethodTagsModelOrigin ==
  (IsClassify /\ ret.verdict.method \in {"backup-model", "pretrained-model"}) =>
     /\ ret.verdict.method = "backup-model" <=> mlc.model = "bootstrap"
     /\ ret.verdict.method = "pretrained-model" <=> mlc.model \in PickledModels

\* C7 witness: a pretrained-model verdict of an instance whose model was
\* loaded by the accessor's reload
C7_Witness ==
  /\ IsClassify
  /\ mlc.reloaded
  /\ ret.verdict.method = "pretrained-model"

\* the number of verdicts of a batch result with is_spam true
SpamVerdicts(classified) ==
  Cardinality({i \in 1..Len(classified) : classified[i].is_spam})

\* C8: for a non-empty batch, spam_count is the number of returned
\* verdicts whose is_spam is true.
C8_SpamCountMatchesVerdicts ==
  (IsBatch /\ ret.entries > 0) =>
     ret.result.spam_count = SpamVerdicts(ret.result.classified_comments)

\* C8 witness: a batch with a spam verdict and a non-spam verdict
C8_Witness ==
  /\ IsBatch
  /\ Len(ret.result.classified_comments) = 2
  /\ ret.result.spam_count = 1

\* C9: the empty batch returns no verdicts, spam_count 0 and spam_rate 0.0
\* and classifies nothing.
C9_EmptyBatch ==
  (IsBatch /\ ret.entries = 0) =>
     /\ ret.result.classified_comments = << >>
     /\ ret.result.spam_count = 0
     /\ ret.result.spam_rate = 0
     /\ ret.calls = 0

\* C9 witness: the empty batch handed to an instance with a loaded model
C9_Witness ==
  /\ IsBatch /\ ret.entries = 0
  /\ mlc._model_loaded /\ deps.sklearn

\* C10: spam_rate is 100 * spam_count / (entries not skipped), 0 when all
\* entries were skipped, and always within [0, 100].
C10_SpamRate ==
  IsBatch =>
     LET n == ret.strings
     IN  /\ ret.result.spam_rate =
              (IF n = 0 THEN 0 ELSE (100 * Unit * ret.result.spam_count) \div n)
         /\ ret.result.spam_rate >= 0 /\ ret.result.spam_rate <= 100 * Unit

\* C10 witness: a batch with a skipped entry and a spam verdict
C10_Witness ==
  /\ IsBatch
  /\ ret.strings = 1 /\ ret.entries = 2
  /\ ret.result.spam_count = 1
  /\ ret.result.spam_rate = 100 * Unit

\* C11: under any interleaving of concurrent first calls of an accessor,
\* the classifier is constructed once and every caller receives the same
\* instance.
C11_ConstructedOnce ==
  /\ made.ml <= 1
  /\ made.sc <= 1
  /\ \A t, u \in Threads :
        (th[t].pc = th[u].pc /\ th[t].pc \in {"ml_returned", "sc_returned"})
           => th[t].got = th[u].got

\* C12: under any interleaving of classify calls on the shared classifier,
\* each call returns the verdict it returns when run alone (which does not
\* depend on the generator state it starts from).
C12_SameAsAlone ==
  \A t \in Threads :
     th[t].pc = "cl_returned" =>
        th[t].verdict = classify(mlc, deps, th[t].arg, rng).verdict

\* C13: on every path of classify the returned risk_level is a function of
\* the returned spam_probability alone, through two cut points medium < high
\* (0.3 and 0.6 in MLSpamClassifier, exclusive; 0.4 and 0.8 in
\* SpamClassifier, inclusive): the tiers do not overlap and grow with the
\* probability.
C13_RiskFollowsProbability ==
  /\ (IsClassify /\ ~ret.raised) =>
        ret.verdict.risk_level =
           (IF ret.verdict.spam_probability > 600000 THEN "high"
            ELSE IF ret.verdict.spam_probability > 300000 THEN "medium" ELSE "low")
  /\ (IsSimple /\ ~ret.raised) =>
        ret.risk_level =
           (IF ret.probability >= 800000 THEN "high"
            ELSE IF ret.probability >= 400000 THEN "medium" ELSE "low")

\* a hybrid-detection verdict whose tier is not the tier of the model's
\* probability
C13_Witness ==
  /\ IsClassify
  /\ ~ret.raised
  /\ ret.verdict.method = "hybrid-detection"
  /\ ret.verdict.risk_level = "high"
  /\ ret.model_prob <= 300000

\* C14: on every path of classify, is_spam is true exactly when the
\* returned spam_probability exceeds one cut point (0.4).
C14_SingleCutPoint ==
  (IsClassify /\ ~ret.raised) =>
     (ret.verdict.is_spam <=> ret.verdict.spam_probability > 400000)

\* a rule-based verdict just above the cut point, and flagged
C14_Witness ==
  /\ IsClassify
  /\ ~ret.raised
  /\ ret.verdict.method = "rule-based"
  /\ ret.verdict.spam_probability > 400000
  /\ ret.verdict.spam_probability <= 500000
  /\ ret.verdict.is_spam

\* C15: the default spam/not-spam cut point is 0.5: a verdict has
\* is_spam = true exactly when its spam_probability is greater than 0.5.
C15_CutPointHalf ==
  (IsClassify /\ ~ret.raised) =>
     (ret.verdict.is_spam <=> ret.verdict.spam_probability > 500000)

\* C16: with no settings supplied the tiers use the cut points 0.4 and 0.8:
\* high when the probability reaches 0.8, medium when it reaches 0.4 but not
\* 0.8, low otherwise.
C16_DefaultTiers ==
  /\ (IsClassify /\ ~ret.raised) =>
        ret.verdict.risk_level =
           (IF ret.verdict.spam_probability >= 800000 THEN "high"
            ELSE IF ret.verdict.spam_probability >= 400000 THEN "medium" ELSE "low")
  /\ (IsSimple /\ ~ret.raised) =>
        ret.risk_level =
           (IF ret.probability >= 800000 THEN "high"
            ELSE IF ret.probability >= 400000 THEN "medium" ELSE "low")

\* C17: for a text that matches no pattern of the rule table the rule
\* engine returns a probability in [0.01, 0.15] with risk_level low, and the
\* rule-based verdict has is_spam = false.
C17_NoMatchBaseline ==
  (IsClassify /\ ~ret.raised /\ ~IsInvalid(ret.arg) /\ ScanTable[ret.arg.val].matches = 0) =>
     /\ ret.rule_prob >= 10000
     /\ ret.rule_prob <= 150000
     /\ ret.rule_risk = "low"
     /\ ret.verdict.method = "rule-based" =>
           (~ret.verdict.is_spam /\ ret.verdict.spam_probability = ret.rule_prob)

\* the scenario text classified by the rule engine alone, with a baseline
\* above the lower end of the interval
C17_Witness ==
  /\ IsClassify
  /\ ~ret.raised
  /\ ret.arg = Str(<<"Great", "video,", "thanks", "for", "sharing!">>)
  /\ ret.verdict.method = "rule-based"
  /\ ret.rule_prob > 10000
  /\ ret.verdict.risk_level = "low"

\* C18: for a text that matches two or more patterns of the rule table the
\* verdict of classify has risk_level high and is_spam true, whether the
\* rule engine answers alone, the model is trusted, the rule engine
\* overrides the model, or the model fails on the call.
C18_MultiMatchIsHighSpam ==
  (IsClassify /\ ~ret.raised /\ ~IsInvalid(ret.arg) /\ ScanTable[ret.arg.val].matches >= 2) =>
     /\ ret.verdict.risk_level = "high"
     /\ ret.verdict.is_spam

\* a text with two matches, scored low by the model and overridden by the
\* rules
C18_Witness ==
  /\ IsClassify
  /\ ~ret.raised
  /\ ret.arg = Str(<<"check", "out", "my", "channel">>)
  /\ ScanTable[ret.arg.val].matches >= 2
  /\ ret.verdict.method = "hybrid-detection"
  /\ ret.model_prob <= 400000
  /\ ret.verdict.risk_level = "high"
  /\ ret.verdict.is_spam

\* C19: whenever the model is unavailable (not loaded, numpy or sklearn
\* missing) or its vectorizer transform or its prediction fails during the
\* call, classify returns exactly the rule engine's verdict for the text:
\* spam_probability = rule_prob, risk_level = rule_risk, method rule-based.
C19_FallsBackToRules ==
  (/\ IsClassify
   /\ ~IsInvalid(ret.arg)
   /\ \/ ~mlc._model_loaded
      \/ ~deps.numpy
      \/ ~deps.sklearn
      \/ mlc.vectorizer \in {"badvec", "unfitted", None}
      \/ mlc.model \in {"badpred", "unfitted", None})
  => /\ ~ret.raised
     /\ ret.rule_prob = rule_based_detection(ret.arg.val, rng).score
     /\ ret.rule_risk = rule_based_detection(ret.arg.val, rng).risk_level
     /\ ret.verdict = Verdict(ret.rule_prob > 400000, ret.rule_prob, ret.rule_risk, "rule-based")

\* a call on a loaded model whose prediction failed, answered by the rules
\* with a match
C19_Witness ==
  /\ IsClassify
  /\ ~ret.raised
  /\ mlc._model_loaded
  /\ mlc.model = "badpred"
  /\ ret.used_model
  /\ ret.rule_prob > 300000
  /\ ret.verdict.method = "rule-based"
  /\ ret.verdict.spam_probability = ret.rule_prob

\* C20: every settings object accepted by validation, on creation or on
\* update, has its thresholds in [0,1] with medium_risk_threshold strictly
\* less than high_risk_threshold (a threshold an update leaves out is not
\* constrained).
C20_AcceptedThresholdsOrdered ==
  (ret.op \in {"MLSettingsCreate", "MLSettingsUpdate"} /\ ret.accepted) =>
     /\ ret.high_risk_threshold.kind = "float" =>
           (ret.high_risk_threshold.val >= 0 /\ ret.high_risk_threshold.val <= Unit)
     /\ ret.medium_risk_threshold.kind = "float" =>
           (ret.medium_risk_threshold.val >= 0 /\ ret.medium_risk_threshold.val <= Unit)
     /\ (ret.high_risk_threshold.kind = "float" /\ ret.medium_risk_threshold.kind = "float") =>
           ret.medium_risk_threshold.val < ret.high_risk_threshold.val

\* C21: a classify call leaves the state shared between calls unchanged:
\* the instance (model, vectorizer, model-loaded flag, backup tag) and the
\* state of the process-wide random generator are the same after the call
\* as before it.
C21_ClassifyLeavesSharedState ==
  [][(ret' /= ret /\ ret'.op = "classify") => (mlc' = mlc /\ rng' = rng)]_vars

\* the call got a probability from the model
ModelProduced == IsClassify /\ ~ret.raised /\ ret.model_prob /= NoProb

\* C22: when the model produces model_prob and rule_prob <= model_prob + 0.3
\* (the boundary rule_prob = model_prob + 0.3 included), the verdict is the
\* model's: spam_probability = model_prob, risk_level derived from
\* model_prob, method pretrained-model or backup-model.
C22_TrustsModel ==
  (ModelProduced /\ ret.rule_prob <= ret.model_prob + 300000) =>
     /\ ret.verdict.spam_probability = ret.model_prob
     /\ ret.verdict.risk_level =
           (IF ret.model_prob > 600000 THEN "high"
            ELSE IF ret.model_prob > 300000 THEN "medium" ELSE "low")
     /\ ret.verdict.method \in {"pretrained-model", "backup-model"}

\* the boundary case, answered by the model
C22_Witness ==
  /\ ModelProduced
  /\ ret.rule_prob = ret.model_prob + 300000
  /\ ret.verdict.spam_probability = ret.model_prob
  /\ ret.verdict.method \in {"pretrained-model", "backup-model"}

\* C23: for a text matching at least one pattern, the rule engine's
\* probability is min(0.9, 1.5 * raw_score) when exactly one pattern
\* matches and min(0.98, 1.2 * min(0.9, 1.5 * raw_score)) when two or more
\* match, raw_score being the sum of the weights of the patterns that
\* match, each counted once.
C23_Amplification ==
  (IsClassify /\ ~ret.raised /\ ~IsInvalid(ret.arg) /\ Matched(ret.arg.val) /= {}) =>
     ret.rule_prob =
        (IF Cardinality(Matched(ret.arg.val)) = 1
         THEN Min(900000, Times15(WeightSum(Matched(ret.arg.val))))
         ELSE Min(980000, Times12(Min(900000, Times15(WeightSum(Matched(ret.arg.val)))))))

\* a text in which the one pattern that matches occurs twice: its weight
\* 0.4 counts once
C23_Witness ==
  /\ IsClassify
  /\ ~ret.raised
  /\ ret.arg = Str(<<"subscribe", "subscribe">>)
  /\ Cardinality(Matched(ret.arg.val)) = 1
  /\ WeightSum(Matched(ret.arg.val)) = 400000
  /\ ret.rule_prob = 600001

\* a batch entry that is a non-empty string
IsText(comment) == comment.type = "str" /\ Len(comment.val) > 0

\* C24: batch processing skips null, empty and non-string entries, and the
\* returned verdicts are the classifications of the remaining entries, one
\* per entry, in the order of the input, each with the text it was computed
\* from.
C24_OrderedResults ==
  ret.op = "process_comments_kept" =>
     /\ Len(ret.result.classified_comments) = Len(SelectSeq(ret.arg, IsText))
     /\ \A i \in 1..Len(ret.result.classified_comments) :
           /\ ret.result.classified_comments[i].text = SelectSeq(ret.arg, IsText)[i]
           /\ ret.result.classified_comments[i] =
                 ResultWithText(classify(mlc, deps, SelectSeq(ret.arg, IsText)[i], rng).verdict,
                                SelectSeq(ret.arg, IsText)[i])

\* a batch of two different texts with different verdicts, returned in the
\* order of the input
C24_Witness ==
  /\ ret.op = "process_comments_kept"
  /\ ret.arg = <<Str(<<"visit">>), Str(<<"Great">>)>>
  /\ Len(ret.result.classified_comments) = 2
  /\ ret.result.classified_comments[1].text = Str(<<"visit">>)
  /\ ret.result.classified_comments[2].text = Str(<<"Great">>)
  /\ ret.result.classified_comments[1].is_spam
  /\ ~ret.result.classified_comments[2].is_spam

\* C25: whenever the pretrained artifact cannot be used (files missing, or
\* present but failing to load), the classifier falls back to the bootstrap
\* model; it is left with the rules alone only when the bootstrap model
\* cannot be built either.
C25_ThreeTiers ==
  (ret.op = "get_ml_classifier_kept" /\ ~mlc._model_loaded) =>
     ~(deps.numpy /\ deps.sklearn /\ ret.train = "ok")

C27_NeverLowersModel ==
  ModelProduced =>
     /\ ret.verdict.spam_probability \in {ret.model_prob, ret.rule_prob}
     /\ ret.verdict.spam_probability >= ret.model_prob

\* a model probability well above the rule engine's score of a matching
\* text, kept
C27_Witness ==
  /\ ModelProduced
  /\ Matched(ret.arg.val) /= {}
  /\ ret.model_prob > ret.rule_prob + 300000
  /\ ret.verdict.spam_probability = ret.model_prob

\* C28: a hybrid-detection verdict is produced only for a text that matched
\* a rule pattern: without a match the baseline (at most 0.15) does not
\* exceed model_prob + 0.3 for any model_prob in [0,1], and the verdict is
\* the model's.
C28_HybridNeedsMatch ==
  /\ (IsClassify /\ ~ret.raised /\ ret.verdict.method = "hybrid-detection") =>
        Matched(ret.arg.val) /= {}
  /\ (ModelProduced /\ Matched(ret.arg.val) = {}) =>
        /\ ret.verdict.spam_probability = ret.model_prob
        /\ ret.verdict.method \in {"pretrained-model", "backup-model"}

\* a text without a match, scored 0.0 by the model: the baseline is above
\* the model's probability and the verdict is still the model's
C28_Witness ==
  /\ ModelProduced
  /\ Matched(ret.arg.val) = {}
  /\ ret.model_prob = 0
  /\ ret.rule_prob > ret.model_prob
  /\ ret.verdict.spam_probability = 0
  /\ ret.verdict.method \in {"pretrained-model", "backup-model"}

\* C29: the comments_analyzed count analyze_video_comments reports never
\* exceeds max_comments, over any pages and any number of replies.
C29_AtMostMaxComments ==
  (yt.pc = "returned" /\ yt.results.counts) =>
     yt.results.comments_analyzed <= Max(yt.max_comments, 0)

\* C30: in every result of analyze_video_comments, whether it ends normally
\* or an error interrupts the paging loop, spam_detected equals the number
\* of entries of spam_comments and does not exceed comments_analyzed.
C30_SpamDetectedMatchesList ==
  (yt.pc = "returned" /\ yt.results.counts) =>
     /\ yt.results.spam_detected = Len(yt.results.spam_comments)
     /\ yt.results.spam_detected <= yt.results.comments_analyzed

====
